---- MODULE Spec2Model ----
(***************************************************************************)
(* A model of maskilayer (src/src/maskilayer/maskilayer.py): the mask      *)
(* normalizer, the blender, the compositor, the path-list helper, the      *)
(* shape validation, the concurrent writer and the orchestrator            *)
(* comp_images.                                                            *)
(*                                                                         *)
(* Numbers.  numpy computes in binary floating point; the model computes   *)
(* in fixed point: the integer v stands for the real v / Scale, and a       *)
(* division rounds to the nearest unit (np.exp of a negative argument      *)
(* rounds down).  Scale is 4 * 255, so every mask sample b / 255.0 and the *)
(* numbers 0.25, 0.5 and 0.75 of the code are exact.  A normalization      *)
(* level is carried in half units (hl stands for the level hl / 2), so     *)
(* that the levels 0.5 and 1.5 can be given.  A sample below half a unit   *)
(* (1 / 2040) is 0 in the model.                                           *)
(***************************************************************************)
EXTENDS Integers, Sequences, FiniteSets, TLC

VARIABLES
    nHeap,      \* normalizer: the caller's arrays before the call (object id -> samples)
    nLevel,     \* normalizer: the level passed, in half units
    nRes,       \* normalizer: the frame at return (heap, returned reference, log)
    nPc,        \* normalizer: "call" before normalize_mask_arr runs, "ret" after
    cIn,        \* compositor: the arguments background, overlay and mask
    cOut,       \* compositor: the array composite_arrs returned
    cPc,        \* compositor: "call" or "ret"
    pIn,        \* normalize_paths: the argument
    pOut,       \* normalize_paths: the list returned
    pPc,        \* normalize_paths: "call" or "ret"
    pc,         \* comp_images: the statement it is at
    args,       \* comp_images: its arguments
    background_arr,
    overlay_arr,
    mask_paths,
    invert_mask_paths,
    mask_arrs,
    mask_arr,
    composite,
    log,        \* comp_images: the lines logged so far
    tasks,      \* write_images: the write_image tasks gathered
    calls,      \* comp_images: the functions it has called so far, in order (history)
    disk,       \* the output files: "absent", "empty" (opened, nothing written) or "written"
    err         \* the exception comp_images ended with, or "none"

nvars == <<nHeap, nLevel, nRes, nPc>>
cvars == <<cIn, cOut, cPc>>
pvars == <<pIn, pOut, pPc>>
ovars == <<pc, args, background_arr, overlay_arr, mask_paths, invert_mask_paths,
           mask_arrs, mask_arr, composite, log, tasks, calls, disk, err>>
vars == <<nvars, cvars, pvars, ovars>>

(***************************************************************************)
(* Bounds of the model.                                                    *)
(***************************************************************************)
\* The longest mask (number of samples) given to the normalizer on its own.
MaxSamples == 3
\* The number of pixels of the images given to the compositor on its own.
MaxPixels == 2
\* The longest path string (in names and delimiters) and the longest path list
\* given to normalize_paths on its own.
MaxAtoms == 5
\* The most mask paths (positive and inverted together) given to comp_images.
MaxMasks == 2
\* The binary digits of the exponent that the power function uses.
PowBits == 6

(***************************************************************************)
(* Fixed-point arithmetic.                                                 *)
(***************************************************************************)
\* The divisor of the mask loader: a raw grayscale sample is 0 .. 255.
MaxByte == 255
\* The fixed-point unit: 1.0.
Scale == 4 * MaxByte
\* 0.5 and 0.25.
Half == Scale \div 2
\* np.finfo(float).eps, about 2.2e-16: below one fixed-point unit.
Eps == 0
\* e^(1/4) = 1.2840254..., in fixed point (1.2840254 * 1020 = 1309.7).
ExpQuarter == 1310

Abs(a) == IF a < 0 THEN -a ELSE a

\* a / b rounded to the nearest integer (b # 0).
RoundDiv(a, b) ==
    IF b < 0 THEN (2 * (-a) + (-b)) \div (2 * (-b))
    ELSE (2 * a + b) \div (2 * b)

\* The fixed-point product of two fixed-point numbers.
Mul(a, b) == RoundDiv(a * b, Scale)

RECURSIVE SqrtSearch(_, _, _)
\* The largest r in lo .. hi with r * r <= n, given lo * lo <= n < (hi+1) * (hi+1).
SqrtSearch(n, lo, hi) ==
    IF lo >= hi THEN lo
    ELSE LET mid == (lo + hi + 1) \div 2
         IN IF mid * mid <= n THEN SqrtSearch(n, mid, hi)
            ELSE SqrtSearch(n, lo, mid - 1)

\* The fixed-point square root of a fixed-point number x >= 0.
FSqrt(x) == SqrtSearch(x * Scale, 0, IF x > Scale THEN x ELSE Scale)

RECURSIVE ExpDown(_, _)
\* acc * e^(-k/4), for k >= 0, each step rounded down; it stops once the value
\* is below one unit (e^(-k/4) underflows to 0, as 0.25 * e^(-99) does beside 0.5).
ExpDown(k, acc) ==
    IF k = 0 \/ acc = 0 THEN acc
    ELSE ExpDown(k - 1, (acc * Scale) \div ExpQuarter)

RECURSIVE ExpUp(_, _)
\* acc * e^(k/4), for k >= 0.
ExpUp(k, acc) ==
    IF k = 0 THEN acc
    ELSE ExpUp(k - 1, RoundDiv(acc * ExpQuarter, Scale))

\* np.exp(q / 4) for an integer q, in fixed point.
Exp(q) == IF q >= 0 THEN ExpUp(q, Scale) ELSE ExpDown(-q, Scale)

RECURSIVE IntPow(_, _)
\* x^n for a natural n.
IntPow(x, n) == IF n = 0 THEN Scale ELSE Mul(x, IntPow(x, n - 1))

RECURSIVE FracPow(_, _, _)
\* x^(f / Scale) for 0 <= f < Scale, from the first k binary digits of f / Scale:
\* the product of the repeated square roots of x that the digits select.
FracPow(x, f, k) ==
    IF k = 0 \/ f = 0 THEN Scale
    ELSE LET s == FSqrt(x)
         IN IF 2 * f >= Scale
            THEN Mul(s, FracPow(s, 2 * f - Scale, k - 1))
            ELSE FracPow(s, 2 * f, k - 1)

\* np.power(x, g) for a sample x >= 0 and an exponent g >= 0.
Power(x, g) == Mul(IntPow(x, g \div Scale), FracPow(x, g % Scale, PowBits))

(***************************************************************************)
(* Arrays.  A mask array is the sequence of its samples (row-major); the   *)
(* heap maps an object id (1 .. Len(heap)) to the samples of that array.   *)
(* A frame is normalize_mask_arr's view: the heap, the array its local     *)
(* name `mask` is bound to, and the lines it has logged.                   *)
(***************************************************************************)
RECURSIVE SeqMin(_)
SeqMin(s) ==
    IF Len(s) = 1 THEN s[1]
    ELSE LET m == SeqMin(Tail(s)) IN IF s[1] < m THEN s[1] ELSE m

RECURSIVE SeqMax(_)
SeqMax(s) ==
    IF Len(s) = 1 THEN s[1]
    ELSE LET m == SeqMax(Tail(s)) IN IF s[1] > m THEN s[1] ELSE m

\* The array `mask` is bound to.
Cur(f) == f.heap[f.mask]

\* `mask = <a new array with samples px>`: allocation, then rebinding.
NewArr(f, px) == [f EXCEPT !.heap = Append(@, px), !.mask = Len(f.heap) + 1]

\* `mask.fill(v)`: writes into the array `mask` is bound to.
Fill(f, v) == [f EXCEPT !.heap[f.mask] = [i \in DOMAIN @ |-> v]]

\* log(...): one more line.
Log(f, line) == [f EXCEPT !.log = Append(@, line)]

(***************************************************************************)
(* normalize_mask_arr.                                                     *)
(***************************************************************************)
\* The mutation of Stretch that forgets to subtract the minimum.
StretchNoShift(px, lo, hi) == [i \in DOMAIN px |-> RoundDiv(px[i] * Scale, hi - lo)]

\* (mask - lo) / (hi - lo), elementwise.
Stretch(px, lo, hi) == [i \in DOMAIN px |-> RoundDiv((px[i] - lo) * Scale, hi - lo)]

\* The mutation of FlatToZero that zeroes the caller's array in place.
FlatToZeroInPlace(f) == Fill(f, 0)

\* The mutation of FlatToZero that keeps the flat value (a copy of the array).
FlatKeepsValue(f) == NewArr(f, Cur(f))

\* mask = np.zeros_like(mask): a new all-zero array of the same shape.
FlatToZero(f) == NewArr(f, [i \in DOMAIN Cur(f) |-> 0])

\* Step 1, the initial normalization to the range 0 .. 1.
InitialStretch(f) ==
    LET lo == SeqMin(Cur(f))
        hi == SeqMax(Cur(f))
    IN IF hi - lo > Eps THEN NewArr(f, Stretch(Cur(f), lo, hi))
       ELSE FlatToZero(f)

\* The mutation of IsLevelOne that returns after Step 1 for every level up to 1.
LevelAtMostOne(hl) == hl <= 2

\* level == 1.
IsLevelOne(hl) == hl = 2

\* cutoff = 0.5 - 0.25 * np.exp(-(level - 2.0) * 0.5); the exponent is (4 - hl) / 4.
Cutoff(hl) == Half - RoundDiv(Exp(4 - hl), 4)

\* gamma = 1.0 - 0.75 * (1.0 - np.exp(-(level - 1.0) * 2.0)); the exponent is
\* 2 - hl = 4 * (2 - hl) / 4.
Gamma(hl) == Scale - RoundDiv(3 * (Scale - Exp(4 * (2 - hl))), 4)

\* np.clip(x, lo, hi) = minimum(maximum(x, lo), hi).
Clip(x, lo, hi) ==
    LET a == IF x < lo THEN lo ELSE x
    IN IF a > hi THEN hi ELSE a

\* mask = np.clip(mask, cutoff, 1.0 - cutoff): a new array.
ClipStep(f, c) == NewArr(f, [i \in DOMAIN Cur(f) |-> Clip(Cur(f)[i], c, Scale - c)])

\* The re-scale after the clip, or the fill with 0.5 when the cutoff is 0.5.
ReExpand(f, c) ==
    LET denominator_cutoff == Scale - 2 * c
    IN IF Abs(denominator_cutoff) > Eps
       THEN NewArr(f, [i \in DOMAIN Cur(f) |->
                         RoundDiv((Cur(f)[i] - c) * Scale, denominator_cutoff)])
       ELSE Fill(f, Half)

\* mask = np.power(mask, gamma): a new array.
GammaStep(f, g) == NewArr(f, [i \in DOMAIN Cur(f) |-> Power(Cur(f)[i], g)])

\* The final normalization to 0 .. 1, or the fill with the flat value.
FinalStretch(f) ==
    LET lo == SeqMin(Cur(f))
        hi == SeqMax(Cur(f))
    IN IF hi - lo > Eps THEN NewArr(f, Stretch(Cur(f), lo, hi))
       ELSE Fill(f, lo)

\* normalize_mask_arr(mask, level): the frame at its return; the returned
\* array is the one `mask` is bound to then.
normalize_mask_arr(f0, hl) ==
    IF hl <= 0 THEN f0
    ELSE LET f1 == InitialStretch(Log(Log(f0, "normalizing"), "original range"))
         IN IF IsLevelOne(hl) THEN f1
            ELSE LET f2 == ReExpand(ClipStep(Log(f1, "cutoff"), Cutoff(hl)), Cutoff(hl))
                     f3 == GammaStep(Log(f2, "gamma"), Gamma(hl))
                 IN FinalStretch(Log(f3, "final range"))

\* The frame of a call whose argument is the array with id `ref` of `heap`.
Frame(heap, ref) == [heap |-> heap, mask |-> ref, log |-> <<>>]

(***************************************************************************)
(* blend_mask_arrs and composite_arrs.  A mask array is a record of its    *)
(* shape (height, width) and its samples; a layer array has in addition    *)
(* the number of channels, and its px holds one tuple of channel values    *)
(* (0 .. 255, as decoded) per pixel.  The array composite_arrs returns     *)
(* holds fixed-point channel values: v stands for v / Scale.               *)
(***************************************************************************)
RECURSIVE SumAt(_, _)
\* The sum over the arrays of the sample at position i.
SumAt(masks, i) ==
    IF masks = <<>> THEN 0 ELSE masks[1].px[i] + SumAt(Tail(masks), i)

\* np.mean(masks, axis=0): the elementwise mean of a non-empty list of arrays.
blend_mask_arrs(masks) ==
    [shape |-> masks[1].shape,
     px |-> [i \in DOMAIN masks[1].px |-> RoundDiv(SumAt(masks, i), Len(masks))]]

\* The mutation of composite_arrs that exchanges the two weights.
CompositeSwapped(background, overlay, mask) ==
    [shape |-> background.shape, ch |-> background.ch,
     px |-> [i \in DOMAIN background.px |->
               [c \in DOMAIN background.px[i] |->
                  background.px[i][c] * mask.px[i]
                  + overlay.px[i][c] * (Scale - mask.px[i])]]]

\* background * (1 - mask[..., np.newaxis]) + overlay * mask[..., np.newaxis]
composite_arrs(background, overlay, mask) ==
    [shape |-> background.shape, ch |-> background.ch,
     px |-> [i \in DOMAIN background.px |->
               [c \in DOMAIN background.px[i] |->
                  background.px[i][c] * (Scale - mask.px[i])
                  + overlay.px[i][c] * mask.px[i]]]]

\* astype(np.uint8) of a non-negative fixed-point number: the fraction is cut.
ToUint8(v) == (v \div Scale) % (MaxByte + 1)

(***************************************************************************)
(* The files.  A path is the sequence of the names and delimiter           *)
(* characters its string is made of; a file's path is one name.            *)
(***************************************************************************)
\* The images on disk: RGB and RGBA layers, and grayscale ("L") masks.
Images ==
    [n \in {"bg.png", "ov.png", "wide.png", "rgba.png",
            "grad.png", "white.png", "gray.png", "tall.png"} |->
       CASE n = "bg.png"    -> [mode |-> "RGB", shape |-> <<1, 2>>,
                                px |-> << <<10, 20, 30>>, <<0, 0, 0>> >>]
         [] n = "ov.png"    -> [mode |-> "RGB", shape |-> <<1, 2>>,
                                px |-> << <<255, 255, 255>>, <<200, 100, 50>> >>]
         [] n = "wide.png"  -> [mode |-> "RGB", shape |-> <<1, 3>>,
                                px |-> << <<1, 2, 3>>, <<4, 5, 6>>, <<7, 8, 9>> >>]
         [] n = "rgba.png"  -> [mode |-> "RGBA", shape |-> <<1, 2>>,
                                px |-> << <<9, 8, 7, 255>>, <<6, 5, 4, 128>> >>]
         [] n = "grad.png"  -> [mode |-> "L", shape |-> <<1, 2>>, px |-> <<0, 255>>]
         [] n = "white.png" -> [mode |-> "L", shape |-> <<1, 2>>, px |-> <<255, 255>>]
         [] n = "gray.png"  -> [mode |-> "L", shape |-> <<1, 2>>, px |-> <<128, 128>>]
         [] n = "tall.png"  -> [mode |-> "L", shape |-> <<2, 1>>, px |-> <<0, 255>>]]

\* A file that exists and is no image: Image.open raises on it.
CorruptFiles == {"corrupt.png"}

\* Path(p).is_file()
IsFile(p) == Len(p) = 1 /\ p[1] \in (DOMAIN Images \cup CorruptFiles)

\* Whether Image.open(path) succeeds.
Decodable(p) == Len(p) = 1 /\ p[1] \in DOMAIN Images

\* arr_from_layer: np.array(image), for an RGB or RGBA image.
arr_from_layer(p) ==
    [shape |-> Images[p[1]].shape, ch |-> Len(Images[p[1]].px[1]),
     px |-> Images[p[1]].px]

\* A raw grayscale sample b as the float b / 255.0.
FromByte(b) == RoundDiv(b * Scale, MaxByte)

\* arr_from_mask: np.array(image.convert("L")).astype(float) / 255.0, for an
\* image that is grayscale already.
arr_from_mask(p) ==
    [shape |-> Images[p[1]].shape,
     px |-> [i \in DOMAIN Images[p[1]].px |-> FromByte(Images[p[1]].px[i])]]

\* 1 - arr_from_mask(p)
InvertArr(m) == [m EXCEPT !.px = [i \in DOMAIN @ |-> Scale - @[i]]]

(***************************************************************************)
(* normalize_paths.  Its argument is None, a string, one Path or a         *)
(* sequence of paths.                                                      *)
(***************************************************************************)
RECURSIVE Split(_, _)
\* str.split(d): the pieces of the string between the delimiters d.
Split(str, d) ==
    IF str = <<>> THEN << <<>> >>
    ELSE LET rest == Split(Tail(str), d)
         IN IF Head(str) = d THEN << <<>> >> \o rest
            ELSE << <<Head(str)>> \o rest[1] >> \o Tail(rest)

Contains(str, d) == \E i \in DOMAIN str : str[i] = d

RECURSIVE Dedup(_)
\* The list without the later occurrences of an element.
Dedup(lst) ==
    IF lst = <<>> THEN <<>>
    ELSE LET front == Dedup(SubSeq(lst, 1, Len(lst) - 1))
             last == lst[Len(lst)]
         IN IF \E i \in DOMAIN front : front[i] = last THEN front
            ELSE Append(front, last)

\* The mutation of KeepFiles that also drops duplicates.
KeepFilesOnce(lst) == Dedup(SelectSeq(lst, IsFile))

\* [p for p in paths if Path(p).is_file()]
KeepFiles(lst) == SelectSeq(lst, IsFile)

\* `not paths`: None, the empty string and the empty sequence.
Falsy(paths) ==
    \/ paths.kind = "none"
    \/ paths.kind \in {"str", "seq"} /\ paths.val = <<>>

normalize_paths(paths) ==
    IF Falsy(paths) THEN <<>>
    ELSE KeepFiles(
           CASE paths.kind = "str" ->
                  IF Contains(paths.val, ";") THEN Split(paths.val, ";")
                  ELSE IF Contains(paths.val, ",") THEN Split(paths.val, ",")
                  ELSE <<paths.val>>
             [] paths.kind = "path" -> <<paths.val>>
             [] paths.kind = "seq" -> paths.val)

(***************************************************************************)
(* check_arrs_dim.                                                         *)
(***************************************************************************)
\* The mutation of check_arrs_dim that compares the two layers only.
CheckLayersOnly(arrays) ==
    \A i \in DOMAIN arrays : i = 2 => arrays[i].shape = arrays[1].shape

\* TRUE when check_arrs_dim returns, FALSE when it raises ValueError.
check_arrs_dim(arrays) ==
    \/ arrays = <<>>
    \/ \A i \in 2..Len(arrays) : arrays[i].shape = arrays[1].shape

(***************************************************************************)
(* Values of the variables of the parts a specification does not run.      *)
(***************************************************************************)
NoFrame == [heap |-> <<>>, mask |-> 0, log |-> <<>>]
NoArr == [shape |-> <<0, 0>>, px |-> <<>>]

NormIdle == nHeap = <<>> /\ nLevel = 0 /\ nRes = NoFrame /\ nPc = "idle"
CompIdle == cIn = <<>> /\ cOut = NoArr /\ cPc = "idle"
PathsIdle == pIn = [kind |-> "none"] /\ pOut = <<>> /\ pPc = "idle"
OrchIdle ==
    /\ pc = "idle" /\ args = <<>> /\ background_arr = NoArr /\ overlay_arr = NoArr
    /\ mask_paths = <<>> /\ invert_mask_paths = <<>> /\ mask_arrs = <<>>
    /\ mask_arr = NoArr /\ composite = NoArr /\ log = <<>> /\ tasks = <<>>
    /\ calls = <<>> /\ disk = <<>> /\ err = "none"

\* Sequences over S of length 1 .. n, and of length 0 .. n.
SeqsUpTo(S, n) == UNION {[1..k -> S] : k \in 1..n}
SeqsFrom0(S, n) == UNION {[1..k -> S] : k \in 0..n}

(***************************************************************************)
(* The normalizer on its own: SpecNorm calls normalize_mask_arr once on a  *)
(* mask of the caller and a level.                                         *)
(***************************************************************************)
\* Raw grayscale samples a mask file may hold.
MaskBytes == {0, 64, 128, 255}

\* The levels tried, in half units: -1, 0, 0.5, 1, 1.5, 2, 3, 5 and 200.
Levels == {-2, 0, 1, 2, 3, 4, 6, 10, 400}

NormInit ==
    /\ \E bytes \in SeqsUpTo(MaskBytes, MaxSamples), inv \in BOOLEAN :
          nHeap = << [i \in DOMAIN bytes |->
                        IF inv THEN Scale - FromByte(bytes[i]) ELSE FromByte(bytes[i])] >>
    /\ nLevel \in Levels
    /\ nRes = NoFrame
    /\ nPc = "call"
    /\ CompIdle /\ PathsIdle /\ OrchIdle

NormCall ==
    /\ nPc = "call"
    /\ nRes' = normalize_mask_arr(Frame(nHeap, 1), nLevel)
    /\ nPc' = "ret"
    /\ UNCHANGED <<nHeap, nLevel, cvars, pvars, ovars>>

NormNext == NormCall

SpecNorm == NormInit /\ [][NormNext]_vars

\* The array normalize_mask_arr returned.
NormResult == nRes.heap[nRes.mask]

(***************************************************************************)
(* The compositor on its own: SpecComp calls composite_arrs once.          *)
(***************************************************************************)
\* The colours of the layers' pixels.
Palette == { <<0, 0, 0>>, <<255, 255, 255>>, <<200, 100, 50>> }

\* The blend weights tried: 0, 0.25, 0.5 and 1.
Weights == {0, Scale \div 4, Half, Scale}

CompInit ==
    /\ \E bg \in [1..MaxPixels -> Palette], ov \in [1..MaxPixels -> Palette],
          w \in [1..MaxPixels -> Weights] :
          cIn = << [shape |-> <<1, MaxPixels>>, ch |-> 3, px |-> bg],
                   [shape |-> <<1, MaxPixels>>, ch |-> 3, px |-> ov],
                   [shape |-> <<1, MaxPixels>>, px |-> w] >>
    /\ cOut = NoArr
    /\ cPc = "call"
    /\ NormIdle /\ PathsIdle /\ OrchIdle

CompCall ==
    /\ cPc = "call"
    /\ cOut' = composite_arrs(cIn[1], cIn[2], cIn[3])
    /\ cPc' = "ret"
    /\ UNCHANGED <<cIn, nvars, pvars, ovars>>

CompNext == CompCall

SpecComp == CompInit /\ [][CompNext]_vars

(***************************************************************************)
(* normalize_paths on its own: SpecPaths calls it once.                    *)
(***************************************************************************)
\* What a path string is made of: names of files, and the two delimiters.
PathNames == {"grad.png", "white.png", "missing.png"}
PathAtoms == PathNames \cup {";", ","}

PathsInit ==
    /\ \/ pIn = [kind |-> "none"]
       \/ \E str \in SeqsFrom0(PathAtoms, MaxAtoms) : pIn = [kind |-> "str", val |-> str]
       \/ \E n \in PathNames : pIn = [kind |-> "path", val |-> <<n>>]
       \/ \E lst \in SeqsFrom0(PathNames, MaxAtoms) :
             pIn = [kind |-> "seq", val |-> [i \in DOMAIN lst |-> <<lst[i]>>]]
    /\ pOut = <<>>
    /\ pPc = "call"
    /\ NormIdle /\ CompIdle /\ OrchIdle

PathsCall ==
    /\ pPc = "call"
    /\ pOut' = normalize_paths(pIn)
    /\ pPc' = "ret"
    /\ UNCHANGED <<pIn, nvars, cvars, ovars>>

PathsNext == PathsCall

SpecPaths == PathsInit /\ [][PathsNext]_vars


(***************************************************************************)
(* comp_images, the orchestrator, and write_images.  Spec runs comp_images *)
(* once on arguments drawn from the files above.                           *)
(***************************************************************************)
\* The levels comp_images is given, in half units: 0, 0.5, 1, 2, 5 and 200.
RunLevels == {0, 1, 2, 4, 10, 400}

\* The paths given as background, overlay, masks and destinations.
BackgroundPaths == {<<"bg.png">>, <<"wide.png">>, <<"missing.png">>}
OverlayPaths == {<<"ov.png">>, <<"wide.png">>, <<"rgba.png">>}
MaskPaths == {<<"grad.png">>, <<"white.png">>, <<"gray.png">>, <<"tall.png">>,
              <<"corrupt.png">>, <<"missing.png">>}
OutputPath == <<"out.png">>
SaveMaskPath == <<"mask.png">>
\* save_mask = None
None == <<>>

\* The argument lists: at most MaxMasks mask paths, positive and inverted together.
MaskLists ==
    {pair \in SeqsFrom0(MaskPaths, MaxMasks) \X SeqsFrom0(MaskPaths, MaxMasks) :
        Len(pair[1]) + Len(pair[2]) <= MaxMasks}

Init ==
    /\ pc = "load_background"
    /\ \E b \in BackgroundPaths, o \in OverlayPaths, ml \in MaskLists,
          sm \in {None, SaveMaskPath}, hl \in RunLevels :
          args = [background |-> b, overlay |-> o, output |-> OutputPath,
                  masks |-> ml[1], invert_masks |-> ml[2],
                  save_mask |-> sm, normalize_level |-> hl]
    /\ background_arr = NoArr /\ overlay_arr = NoArr
    /\ mask_paths = <<>> /\ invert_mask_paths = <<>> /\ mask_arrs = <<>>
    /\ mask_arr = NoArr /\ composite = NoArr
    /\ log = <<>> /\ tasks = <<>> /\ calls = <<>>
    /\ disk = [n \in {OutputPath[1], SaveMaskPath[1]} |-> "absent"]
    /\ err = "none"
    /\ NormIdle /\ CompIdle /\ PathsIdle

\* An exception leaves comp_images: nothing after the raising statement runs.
Raise(e) == pc' = "failed" /\ err' = e

\* background_arr = arr_from_layer(Path(background), 0)
LoadBackground ==
    /\ pc = "load_background"
    /\ log' = log \o <<"Opening layers", "Opening layer">>
    /\ calls' = Append(calls, "arr_from_layer")
    /\ IF Decodable(args.background)
       THEN /\ background_arr' = arr_from_layer(args.background)
            /\ pc' = "load_overlay"
            /\ UNCHANGED err
       ELSE /\ Raise("ResourceError")
            /\ UNCHANGED background_arr
    /\ UNCHANGED <<args, overlay_arr, mask_paths, invert_mask_paths, mask_arrs,
                   mask_arr, composite, tasks, disk, nvars, cvars, pvars>>

\* overlay_arr = arr_from_layer(Path(overlay), 1)
LoadOverlay ==
    /\ pc = "load_overlay"
    /\ log' = Append(log, "Opening layer")
    /\ calls' = Append(calls, "arr_from_layer")
    /\ IF Decodable(args.overlay)
       THEN /\ overlay_arr' = arr_from_layer(args.overlay)
            /\ pc' = "load_masks"
            /\ UNCHANGED err
       ELSE /\ Raise("ResourceError")
            /\ UNCHANGED overlay_arr
    /\ UNCHANGED <<args, background_arr, mask_paths, invert_mask_paths, mask_arrs,
                   mask_arr, composite, tasks, disk, nvars, cvars, pvars>>

\* The number of arr_from_mask calls a list comprehension over `paths` makes:
\* all of them, or up to the first file Image.open raises on.
Opened(paths) ==
    IF \A i \in DOMAIN paths : Decodable(paths[i]) THEN Len(paths)
    ELSE CHOOSE i \in DOMAIN paths :
            ~Decodable(paths[i]) /\ \A j \in 1..(i - 1) : Decodable(paths[j])

\* mask_paths = normalize_paths(masks); mask_arrs = [arr_from_mask(p, pi) ...]
LoadMasks ==
    /\ pc = "load_masks"
    /\ LET paths == normalize_paths([kind |-> "seq", val |-> args.masks])
       IN /\ mask_paths' = paths
          /\ log' = Append(log, "Opening positive masks")
                       \o [i \in 1..Opened(paths) |-> "Opening mask"]
          /\ calls' = Append(calls, "normalize_paths")
                       \o [i \in 1..Opened(paths) |-> "arr_from_mask"]
          /\ IF \A i \in DOMAIN paths : Decodable(paths[i])
             THEN /\ mask_arrs' = [i \in DOMAIN paths |-> arr_from_mask(paths[i])]
                  /\ pc' = "load_invert_masks"
                  /\ UNCHANGED err
             ELSE /\ Raise("ResourceError")
                  /\ UNCHANGED mask_arrs
    /\ UNCHANGED <<args, background_arr, overlay_arr, invert_mask_paths,
                   mask_arr, composite, tasks, disk, nvars, cvars, pvars>>

\* invert_mask_paths = normalize_paths(invert_masks);
\* invert_mask_arrs = [1 - arr_from_mask(...)]; mask_arrs.extend(invert_mask_arrs)
LoadInvertMasks ==
    /\ pc = "load_invert_masks"
    /\ LET paths == normalize_paths([kind |-> "seq", val |-> args.invert_masks])
       IN /\ invert_mask_paths' = paths
          /\ log' = Append(log, "Opening negative masks")
                       \o [i \in 1..Opened(paths) |-> "Opening mask"]
          /\ calls' = Append(calls, "normalize_paths")
                       \o [i \in 1..Opened(paths) |-> "arr_from_mask"]
          /\ IF \A i \in DOMAIN paths : Decodable(paths[i])
             THEN /\ mask_arrs' = mask_arrs \o
                        [i \in DOMAIN paths |-> InvertArr(arr_from_mask(paths[i]))]
                  /\ pc' = "check"
                  /\ UNCHANGED err
             ELSE /\ Raise("ResourceError")
                  /\ UNCHANGED mask_arrs
    /\ UNCHANGED <<args, background_arr, overlay_arr, mask_paths,
                   mask_arr, composite, tasks, disk, nvars, cvars, pvars>>

\* check_arrs_dim([background_arr, overlay_arr] + mask_arrs)
CheckDims ==
    /\ pc = "check"
    /\ calls' = Append(calls, "check_arrs_dim")
    /\ IF check_arrs_dim(<<background_arr, overlay_arr>> \o mask_arrs)
       THEN pc' = "weight" /\ UNCHANGED err
       ELSE Raise("ValueError: dimensions must match")
    /\ UNCHANGED <<args, background_arr, overlay_arr, mask_paths, invert_mask_paths,
                   mask_arrs, mask_arr, composite, log, tasks, disk,
                   nvars, cvars, pvars>>

\* The mutation of DefaultMask that fills with 1.0.
DefaultMaskOpaque(bg) ==
    [shape |-> bg.shape, px |-> [i \in 1..(bg.shape[1] * bg.shape[2]) |-> Scale]]

\* np.full(background_arr.shape[:2], 0.5)
DefaultMask(bg) ==
    [shape |-> bg.shape, px |-> [i \in 1..(bg.shape[1] * bg.shape[2]) |-> Half]]

\* normalize_mask_arr(m, normalize_level, mi) on an array of comp_images: the
\* array returned, and the lines logged.
NormalizeArr(m, hl) ==
    LET f == normalize_mask_arr(Frame(<<m.px>>, 1), hl)
    IN [shape |-> m.shape, px |-> f.heap[f.mask], log |-> f.log]

RECURSIVE LogsOf(_)
LogsOf(rs) == IF rs = <<>> THEN <<>> ELSE rs[1].log \o LogsOf(Tail(rs))

\* The blend weight: 0.5 everywhere without masks, else the mean of the
\* normalized masks.
Weight ==
    /\ pc = "weight"
    /\ IF mask_arrs = <<>>
       THEN /\ log' = Append(log, "Will composite at 50%")
            /\ mask_arr' = DefaultMask(background_arr)
            /\ UNCHANGED <<mask_arrs, calls>>
       ELSE \E rs \in {[i \in DOMAIN mask_arrs |->
                           NormalizeArr(mask_arrs[i], args.normalize_level)]} :
               /\ mask_arrs' = [i \in DOMAIN rs |-> [shape |-> rs[i].shape, px |-> rs[i].px]]
               /\ mask_arr' = blend_mask_arrs(mask_arrs')
               /\ log' = log \o <<"Normalizing masks">> \o LogsOf(rs) \o <<"Blending masks">>
               /\ calls' = calls \o [i \in DOMAIN rs |-> "normalize_mask_arr"]
                                 \o <<"blend_mask_arrs">>
    /\ pc' = "composite"
    /\ UNCHANGED <<args, background_arr, overlay_arr, mask_paths, invert_mask_paths,
                   composite, tasks, disk, err, nvars, cvars, pvars>>

\* composite = composite_arrs(background_arr, overlay_arr, mask_arr); numpy
\* raises ValueError when the channel counts of the layers cannot be broadcast.
Composite ==
    /\ pc = "composite"
    /\ log' = Append(log, "Compositing layers")
    /\ calls' = Append(calls, "composite_arrs")
    /\ IF background_arr.ch = overlay_arr.ch
       THEN /\ composite' = composite_arrs(background_arr, overlay_arr, mask_arr)
            /\ pc' = "writes"
            /\ UNCHANGED err
       ELSE /\ Raise("ValueError: operands could not be broadcast")
            /\ UNCHANGED composite
    /\ UNCHANGED <<args, background_arr, overlay_arr, mask_paths, invert_mask_paths,
                   mask_arrs, mask_arr, tasks, disk, nvars, cvars, pvars>>

\* Image.fromarray((mask_arr * 255).astype(np.uint8))
MaskImage(m) == [i \in DOMAIN m.px |-> ToUint8(m.px[i] * MaxByte)]

\* Image.fromarray(composite.astype(np.uint8))
CompositeImage(a) == [i \in DOMAIN a.px |-> [c \in DOMAIN a.px[i] |-> ToUint8(a.px[i][c])]]

\* The list `writes`, and asyncio.run(write_images(writes)) up to the creation of
\* one write_image task per entry.
BuildWrites ==
    /\ pc = "writes"
    /\ tasks' = (IF args.save_mask # None
                 THEN << [path |-> args.save_mask, img |-> MaskImage(mask_arr), st |-> "new"] >>
                 ELSE <<>>)
                \o << [path |-> args.output, img |-> CompositeImage(composite), st |-> "new"] >>
    /\ log' = Append(log, "Saving outputs")
    /\ calls' = Append(calls, "write_images")
    /\ pc' = "gather"
    /\ UNCHANGED <<args, background_arr, overlay_arr, mask_paths, invert_mask_paths,
                   mask_arrs, mask_arr, composite, disk, err, nvars, cvars, pvars>>

OrchFrame == <<args, background_arr, overlay_arr, mask_paths, invert_mask_paths,
               mask_arrs, mask_arr, composite, calls, nvars, cvars, pvars>>

\* write_image up to its first suspension: the PNG is encoded into a buffer,
\* the parent directory is made, and aiofiles.open is handed to the executor.
\* The event loop starts the tasks in the order gather was given them.
TaskStart(i) ==
    /\ pc = "gather"
    /\ tasks[i].st = "new"
    /\ \A j \in 1..(i - 1) : tasks[j].st # "new"
    /\ tasks' = [tasks EXCEPT ![i].st = "opening"]
    /\ log' = Append(log, "Saving image")
    /\ UNCHANGED <<pc, disk, err, OrchFrame>>

\* Every task has run to its first suspension before any of them is resumed.
AllStarted == \A j \in DOMAIN tasks : tasks[j].st # "new"

\* aiofiles.open(path, "wb") completes: the file exists and is empty.
TaskOpened(i) ==
    /\ pc = "gather" /\ AllStarted
    /\ tasks[i].st = "opening"
    /\ disk' = [disk EXCEPT ![tasks[i].path[1]] = "empty"]
    /\ tasks' = [tasks EXCEPT ![i].st = "writing"]
    /\ UNCHANGED <<pc, log, err, OrchFrame>>

\* await f.write(output.getvalue()) completes.
TaskWritten(i) ==
    /\ pc = "gather"
    /\ tasks[i].st = "writing"
    /\ disk' = [disk EXCEPT ![tasks[i].path[1]] = "written"]
    /\ tasks' = [tasks EXCEPT ![i].st = "closing"]
    /\ UNCHANGED <<pc, log, err, OrchFrame>>

\* The `async with` block is left: the file is closed and write_image returns.
TaskClosed(i) ==
    /\ pc = "gather"
    /\ tasks[i].st = "closing"
    /\ tasks' = [tasks EXCEPT ![i].st = "done"]
    /\ UNCHANGED <<pc, log, disk, err, OrchFrame>>

\* The open or the write of task i raises OSError (no permission, disk full):
\* gather hands the first exception to write_images, and asyncio.run cancels
\* the tasks that are left before it re-raises.
TaskFail(i) ==
    /\ pc = "gather" /\ AllStarted
    /\ tasks[i].st \in {"opening", "writing"}
    /\ tasks' = [tasks EXCEPT ![i].st = "failed"]
    /\ pc' = "cancel"
    /\ UNCHANGED <<log, disk, err, OrchFrame>>

\* asyncio.run cancels task j.  The file operation the task was waiting for
\* is in the executor's hands: it has run, or it never runs.
TaskCancel(j) ==
    /\ pc = "cancel"
    /\ tasks[j].st \in {"opening", "writing", "closing"}
    /\ \E ran \in BOOLEAN :
          disk' = IF ran /\ tasks[j].st = "opening"
                    THEN [disk EXCEPT ![tasks[j].path[1]] = "empty"]
                  ELSE IF ran /\ tasks[j].st = "writing"
                    THEN [disk EXCEPT ![tasks[j].path[1]] = "written"]
                  ELSE disk
    /\ tasks' = [tasks EXCEPT ![j].st = "cancelled"]
    /\ UNCHANGED <<pc, log, err, OrchFrame>>

\* asyncio.run re-raises the exception of write_images.
GatherRaise ==
    /\ pc = "cancel"
    /\ \A j \in DOMAIN tasks : tasks[j].st \in {"done", "failed", "cancelled"}
    /\ Raise("OSError")
    /\ UNCHANGED <<log, tasks, disk, OrchFrame>>

\* The mutation of JoinReady that waits for the first task only.
JoinFirstDone(ts) == \E i \in DOMAIN ts : ts[i].st = "done"

\* await asyncio.gather(...) returns once every task has returned.
JoinReady(ts) == \A i \in DOMAIN ts : ts[i].st = "done"

\* write_images and asyncio.run return; log("Finished"); comp_images returns.
GatherReturn ==
    /\ pc = "gather"
    /\ JoinReady(tasks)
    /\ log' = Append(log, "Finished")
    /\ pc' = "returned"
    /\ UNCHANGED <<tasks, disk, err, OrchFrame>>

Next ==
    \/ LoadBackground
    \/ LoadOverlay
    \/ LoadMasks
    \/ LoadInvertMasks
    \/ CheckDims
    \/ Weight
    \/ Composite
    \/ BuildWrites
    \/ \E i \in DOMAIN tasks : TaskStart(i)
    \/ \E i \in DOMAIN tasks : TaskOpened(i)
    \/ \E i \in DOMAIN tasks : TaskWritten(i)
    \/ \E i \in DOMAIN tasks : TaskClosed(i)
    \/ \E i \in DOMAIN tasks : TaskFail(i)
    \/ \E i \in DOMAIN tasks : TaskCancel(i)
    \/ GatherRaise
    \/ GatherReturn

Spec == Init /\ [][Next]_vars


(***************************************************************************)
(* Properties.                                                             *)
(***************************************************************************)
\* Every load of comp_images has been made and has succeeded.
AllLoaded ==
    /\ pc \notin {"idle", "load_background", "load_overlay", "load_masks",
                  "load_invert_masks"}
    /\ err # "ResourceError"

\* The loaded arrays do not all share one height x width.
ShapesDiffer ==
    \E a, b \in {background_arr, overlay_arr} \cup {mask_arrs[i] : i \in DOMAIN mask_arrs} :
        a.shape # b.shape

Called(f) == \E i \in DOMAIN calls : calls[i] = f
Logged(line) == \E i \in DOMAIN log : log[i] = line

\* No output file has been touched.
NothingOnDisk == \A n \in DOMAIN disk : disk[n] = "absent"

\* C1: once every array is loaded and their heights x widths are not all the
\* same, the validation step ends the run with the dimension error, and no
\* normalization, blending, compositing or write has happened: nothing was
\* logged or called for them, no write task exists and no file was touched.
C1_ShapeMismatchAborts ==
    (AllLoaded /\ ShapesDiffer /\ pc # "check") =>
        /\ pc = "failed"
        /\ err = "ValueError: dimensions must match"
        /\ calls[Len(calls)] = "check_arrs_dim"
        /\ ~Called("normalize_mask_arr") /\ ~Called("blend_mask_arrs")
        /\ ~Called("composite_arrs") /\ ~Called("write_images")
        /\ ~Logged("Normalizing masks") /\ ~Logged("Compositing layers")
        /\ ~Logged("Saving outputs")
        /\ mask_arr = NoArr /\ composite = NoArr /\ tasks = <<>>
        /\ NothingOnDisk

\* C1's case: the layers agree (1 x 2), a loaded mask is 2 x 1, and the run has
\* ended with the dimension error.
C1_Witness ==
    /\ pc = "failed" /\ err = "ValueError: dimensions must match"
    /\ background_arr.shape = overlay_arr.shape
    /\ \E i \in DOMAIN mask_arrs : mask_arrs[i].shape # background_arr.shape

\* The output files a run was asked for.
Requested ==
    {args.output[1]} \cup (IF args.save_mask = None THEN {} ELSE {args.save_mask[1]})

\* C2: a run that has ended has written every requested output, or none.
C2_AllOrNothing ==
    pc \in {"returned", "failed"} =>
        \/ \A n \in Requested : disk[n] = "written"
        \/ \A n \in Requested : disk[n] # "written"

\* The blend weight has been computed.
PastWeight ==
    \/ pc \in {"composite", "writes", "gather", "cancel", "returned"}
    \/ pc = "failed" /\ err \in {"ValueError: operands could not be broadcast", "OSError"}

\* C3: when both resolved path lists are empty, the blend weight is 0.5 at
\* every pixel of a grid of the background's height x width, the composite is
\* computed with it, and neither normalize_mask_arr nor blend_mask_arrs is called.
C3_DefaultWeight ==
    (PastWeight /\ mask_paths = <<>> /\ invert_mask_paths = <<>>) =>
        /\ mask_arr.shape = background_arr.shape
        /\ DOMAIN mask_arr.px = DOMAIN background_arr.px
        /\ \A i \in DOMAIN mask_arr.px : mask_arr.px[i] = Half
        /\ ~Called("normalize_mask_arr") /\ ~Called("blend_mask_arrs")
        /\ ~Logged("Normalizing masks") /\ ~Logged("Blending masks")
        /\ composite # NoArr =>
              \A i \in DOMAIN composite.px : \A c \in DOMAIN composite.px[i] :
                  2 * composite.px[i][c] =
                      Scale * (background_arr.px[i][c] + overlay_arr.px[i][c])

\* C3's case: a run without any resolved mask has composited and returned.
C3_Witness ==
    /\ pc = "returned" /\ mask_paths = <<>> /\ invert_mask_paths = <<>>
    /\ Logged("Will composite at 50%")

\* C4: at every pixel and channel the composite is background * (1 - weight) +
\* overlay * weight; with weight 0 it is the background's channel value and with
\* weight 1 the overlay's, also after the cut to an 8-bit sample.
C4_Interpolation ==
    cPc = "ret" =>
        /\ cOut.shape = cIn[1].shape
        /\ DOMAIN cOut.px = DOMAIN cIn[1].px
        /\ \A i \in DOMAIN cOut.px :
              /\ DOMAIN cOut.px[i] = DOMAIN cIn[1].px[i]
              /\ \A c \in DOMAIN cOut.px[i] :
                    LET b == cIn[1].px[i][c]
                        o == cIn[2].px[i][c]
                        w == cIn[3].px[i]
                        v == cOut.px[i][c]
                    IN /\ v - Scale * b = w * (o - b)
                       /\ w = 0 => v = Scale * b /\ ToUint8(v) = b
                       /\ w = Scale => v = Scale * o /\ ToUint8(v) = o

\* C4's case: one pixel composited with weight 0 and another with weight 1, the
\* layers differing at both.
C4_Witness ==
    /\ cPc = "ret"
    /\ \E i, j \in DOMAIN cOut.px :
          /\ cIn[3].px[i] = 0 /\ cIn[3].px[j] = Scale
          /\ cIn[1].px[i] # cIn[2].px[i] /\ cIn[1].px[j] # cIn[2].px[j]
          /\ cOut.px[i] # cOut.px[j]

\* C5: for a level >= 1 every sample normalize_mask_arr returns is in 0 .. 1.
C5_Range ==
    (nPc = "ret" /\ nLevel >= 2) =>
        \A i \in DOMAIN NormResult : NormResult[i] >= 0 /\ NormResult[i] <= Scale

\* C5's case: a mask that is not flat, normalized at a level whose cutoff is
\* 0.5: the result is flat and neither 0 nor 1.
C5_Witness ==
    /\ nPc = "ret" /\ nLevel = 400
    /\ SeqMin(nHeap[1]) < SeqMax(nHeap[1])
    /\ SeqMin(NormResult) = SeqMax(NormResult)
    /\ NormResult[1] > 0 /\ NormResult[1] < Scale

\* C6: the array the caller passed holds after the call what it held before.
C6_NoMutation ==
    nPc = "ret" => /\ Len(nRes.heap) >= 1
                   /\ nRes.heap[1] = nHeap[1]

\* C6's case: a flat mask at a level whose cutoff is 0.5, where the flat branch
\* of Step 1 and both in-place fills have run; the result differs from the input.
C6_Witness ==
    /\ nPc = "ret" /\ nLevel = 400
    /\ SeqMin(nHeap[1]) = SeqMax(nHeap[1])
    /\ nRes.mask # 1
    /\ NormResult # nHeap[1]
    /\ nRes.heap[1] = nHeap[1]

\* C7: comp_images returns only when every write task has returned and its
\* file is written; and the tasks are dispatched together: no task is resumed
\* or finished while another has not yet been started.
C7_JoinBeforeReturn ==
    /\ pc = "returned" =>
          \A i \in DOMAIN tasks :
              tasks[i].st = "done" /\ disk[tasks[i].path[1]] = "written"
    /\ \A i, j \in DOMAIN tasks :
          tasks[i].st \in {"writing", "closing", "done", "failed", "cancelled"}
              => tasks[j].st # "new"

\* C7's case: both images were to be persisted and comp_images has returned.
C7_Witness ==
    /\ pc = "returned" /\ Len(tasks) = 2
    /\ disk[SaveMaskPath[1]] = "written" /\ disk[OutputPath[1]] = "written"

\* The two orders of completion: the composite's write is finished while the
\* blend-weight image's file is not yet opened, and the other way round.
C7_CompositeFirst ==
    Len(tasks) = 2 /\ tasks[2].st = "done" /\ tasks[1].st = "opening"
C7_MaskFirst ==
    Len(tasks) = 2 /\ tasks[1].st = "done" /\ tasks[2].st = "opening"

\* The list normalize_paths filters: the pieces of a string, the one path, or
\* the sequence given.
Pieces(paths) ==
    IF Falsy(paths) THEN <<>>
    ELSE IF paths.kind = "str"
         THEN IF Contains(paths.val, ";") THEN Split(paths.val, ";")
              ELSE IF Contains(paths.val, ",") THEN Split(paths.val, ",")
              ELSE <<paths.val>>
    ELSE IF paths.kind = "path" THEN <<paths.val>>
    ELSE paths.val

Count(lst, x) == Cardinality({i \in DOMAIN lst : lst[i] = x})

RECURSIVE IsSubseq(_, _)
\* a is b with some elements left out.
IsSubseq(a, b) ==
    IF a = <<>> THEN TRUE
    ELSE IF b = <<>> THEN FALSE
    ELSE IF Head(a) = Head(b) THEN IsSubseq(Tail(a), Tail(b))
    ELSE IsSubseq(a, Tail(b))

\* C8 as stated: the list returned holds no path twice.
C8_NoDuplicates ==
    pPc = "ret" => \A i, j \in DOMAIN pOut : i # j => pOut[i] # pOut[j]

\* C8 as amended: the list returned holds only existing files, in the order of
\* the input, and each as often as the input lists it (duplicates are kept);
\* empty or absent input yields the empty list.
C8_KeepsFilesInOrder ==
    pPc = "ret" =>
        /\ \A i \in DOMAIN pOut : IsFile(pOut[i])
        /\ IsSubseq(pOut, Pieces(pIn))
        /\ \A n \in PathNames :
              Count(pOut, <<n>>) = IF IsFile(<<n>>) THEN Count(Pieces(pIn), <<n>>) ELSE 0
        /\ Falsy(pIn) => pOut = <<>>

\* C8's case: a string that lists one existing mask twice, and a missing one.
C8_Witness ==
    /\ pPc = "ret" /\ pIn.kind = "str"
    /\ Contains(pIn.val, "missing.png")
    /\ pOut = << <<"grad.png">>, <<"grad.png">> >>

\* The min-max stretch of the caller's mask: what Step 1 alone yields.
StretchedInput ==
    LET m == nHeap[1]
    IN IF SeqMax(m) - SeqMin(m) > Eps THEN Stretch(m, SeqMin(m), SeqMax(m))
       ELSE [i \in DOMAIN m |-> 0]

\* C9 as stated: for 0 < level < 1 only Step 1 runs, and the result is the
\* min-max stretched grid.
C9_OnlyStretch ==
    (nPc = "ret" /\ nLevel > 0 /\ nLevel < 2) =>
        /\ nRes.log = <<"normalizing", "original range">>
        /\ NormResult = StretchedInput

\* C9 as amended: for 0 < level < 1 Step 1 runs and then the cutoff clip, the
\* re-expansion, the gamma and the final stretch run too, each once and in this
\* order, as for every level other than 1 (only level 1 returns after Step 1);
\* the result spans 0 .. 1 exactly when the mask is not flat.
C9_AllStepsBelowOne ==
    /\ (nPc = "ret" /\ nLevel > 0 /\ nLevel < 2) =>
          /\ nRes.log = <<"normalizing", "original range", "cutoff", "gamma", "final range">>
          /\ Len(nRes.heap) > 2
          /\ \A i \in DOMAIN NormResult : NormResult[i] >= 0 /\ NormResult[i] <= Scale
          /\ SeqMin(nHeap[1]) < SeqMax(nHeap[1]) =>
                SeqMin(NormResult) = 0 /\ SeqMax(NormResult) = Scale
    /\ (nPc = "ret" /\ nLevel = 2) =>
          /\ nRes.log = <<"normalizing", "original range">>
          /\ NormResult = StretchedInput

\* C9's case: level 0.5 on a mask that is not flat; the gamma step has run and
\* the result is not the min-max stretched grid.
C9_Witness ==
    /\ nPc = "ret" /\ nLevel = 1
    /\ SeqMin(nHeap[1]) < SeqMax(nHeap[1])
    /\ \E i \in DOMAIN nRes.log : nRes.log[i] = "gamma"
    /\ NormResult # StretchedInput

\* Every resolved mask, positive or inverted, is a uniform image; there is one.
ResolvedMasks == mask_paths \o invert_mask_paths
AllUniform ==
    /\ ResolvedMasks # <<>>
    /\ \A i \in DOMAIN ResolvedMasks :
          LET px == Images[ResolvedMasks[i][1]].px
          IN \A j, k \in DOMAIN px : px[j] = px[k]

\* Every resolved mask is a positive solid-white mask; there is one.
AllSolidWhite ==
    /\ mask_paths # <<>> /\ invert_mask_paths = <<>>
    /\ \A i \in DOMAIN mask_paths :
          \A j \in DOMAIN Images[mask_paths[i][1]].px :
              Images[mask_paths[i][1]].px[j] = MaxByte

CompositeIs(layer) ==
    \A i \in DOMAIN composite.px : \A c \in DOMAIN composite.px[i] :
        composite.px[i][c] = Scale * layer.px[i][c]

====
